---- MODULE Spec2Model ----
(***************************************************************************)
(* Model of the C++ code smell detector: the ASTParser singleton and its   *)
(* metrics (utils/astParser.ts), the detectors, analyzeCode and            *)
(* calculateStats (utils/codeAnalysis.ts) and the batch handler of App.tsx.*)
(***************************************************************************)
EXTENDS Integers, Sequences, FiniteSets, TLC

VARIABLES
    instance,           \* ASTParser.instance has been created
    initialized,        \* ASTParser.instance.initialized
    parser,             \* ASTParser.instance.parser: "null", "bare" (a Parser
                        \* without a language) or "cpp" (the grammar is set)
    wasm,               \* web-tree-sitter's own Parser.init(): "unknown", "ok", "failed"
    fileContentStore,   \* Map fileName -> content
    tasks,              \* the analysis promises created by files.map, in creation order
    handler,            \* handleFilesUploaded: where it stands and the tasks it awaits
    results,            \* App state: results
    stats,              \* App state: stats
    isAnalyzing,        \* App state: isAnalyzing
    showUpload,         \* App state: showUpload
    initCalls,          \* history: number of calls of initialize()
    fnArg,              \* input handed to the pure function under check
    fnName,             \* name of the function that was applied ("none" before)
    fnRet               \* value the function returned

appVars == <<instance, initialized, parser, wasm, fileContentStore, tasks, handler,
             results, stats, isAnalyzing, showUpload, initCalls>>

fnVars == <<fnArg, fnName, fnRet>>

vars == <<appVars, fnVars>>

NULL == 0

\* the page after it has loaded, but for the fields of the provider
InitPage ==
    /\ fileContentStore = <<>>
    /\ tasks = <<>>
    /\ handler = [pc |-> "idle", tasks |-> <<>>, batches |-> 0]
    /\ results = <<>>
    /\ stats = NULL
    /\ isAnalyzing = FALSE
    /\ showUpload = FALSE
    /\ initCalls = 0

\* the state of the page after it has loaded
InitApp ==
    /\ instance = FALSE
    /\ initialized = FALSE
    /\ parser = "null"
    /\ wasm = "unknown"
    /\ InitPage

\* the guard without the test of the initialized flag
parseCodeParserOnly ==
    IF parser = "null" THEN "ASTParser not initialized"
    ELSE IF parser = "bare" THEN "Parsing failed"
    ELSE "tree"

\* parseCode: the guard of the method, then Parser.parse, which throws
\* "Parsing failed" on a parser without a language
parseCode ==
    IF ~initialized \/ parser = "null" THEN "ASTParser not initialized"
    ELSE IF parser = "bare" THEN "Parsing failed"
    ELSE "tree"

(***************************************************************************)
(* Syntax trees as web-tree-sitter hands them out.  A tree is a sequence   *)
(* of nodes; node 1 is the root, tree[n].parent < n, the children of a     *)
(* node are its nodes in increasing index order.                           *)
(*   type   node.type                                                      *)
(*   name   text of the node's naming child (declarator of a function,     *)
(*          field of a field_expression), "" when that child is missing;   *)
(*          also the root symbol of the node's own text                    *)
(*   lines  node.text.split('\n').length                                   *)
(*   row    node.startPosition.row                                         *)
(***************************************************************************)
MaxNodes == 3

NodeTypes == {"translation_unit", "function_definition", "class_specifier",
              "compound_statement", "if_statement", "field_expression"}

Names == {"", "m"}

LineCounts == {20, 21, 30, 31, 40, 41, 200, 201, 500, 501}

Children(tree, p) ==
    {c \in 1..Len(tree) : tree[c].parent = p}

\* the body field of a function or class node: its first block child
childForFieldNameBody(tree, n) ==
    LET bs == {c \in Children(tree, n) : tree[c].type = "compound_statement"}
    IN  IF bs = {} THEN NULL ELSE CHOOSE c \in bs : \A d \in bs : c <= d

\* tree-sitter-cpp gives a class_specifier no field called base_class
childForFieldNameBaseClass(tree, n) == NULL

(***************************************************************************)
(* TreeCursor.  node.walk() returns a cursor whose root is node; the       *)
(* cursor cannot leave the sub-tree of its root.                           *)
(***************************************************************************)
walk(tree, n) == [root |-> n, cur |-> n]

NextSibling(tree, n) ==
    LET later == {c \in Children(tree, tree[n].parent) : c > n}
    IN  IF later = {} THEN NULL ELSE CHOOSE c \in later : \A d \in later : c <= d

gotoNextSibling(tree, cursor) ==
    IF cursor.cur = cursor.root \/ NextSibling(tree, cursor.cur) = NULL
    THEN [ok |-> FALSE, cursor |-> cursor]
    ELSE [ok |-> TRUE, cursor |-> [cursor EXCEPT !.cur = NextSibling(tree, cursor.cur)]]

gotoParent(tree, cursor) ==
    IF cursor.cur = cursor.root
    THEN [ok |-> FALSE, cursor |-> cursor]
    ELSE [ok |-> TRUE, cursor |-> [cursor EXCEPT !.cur = tree[cursor.cur].parent]]

\* the loop condition shared by every metric:
\*   cursor.gotoNextSibling() || cursor.gotoParent() && cursor.gotoNextSibling()
LoopCondition(tree, cursor) ==
    LET s == gotoNextSibling(tree, cursor)
    IN  IF s.ok THEN s
        ELSE LET p == gotoParent(tree, s.cursor)
             IN  IF p.ok THEN gotoNextSibling(tree, p.cursor) ELSE p

\* the nodes the do-while loop stands on, in order
RECURSIVE Traverse(_, _)
Traverse(tree, cursor) ==
    LET c == LoopCondition(tree, cursor)
    IN  <<cursor.cur>> \o (IF c.ok THEN Traverse(tree, c.cursor) ELSE <<>>)

incrementingNodes == {"if_statement", "while_statement", "for_statement",
                      "case_statement", "&&", "||", "catch_clause"}

\* a tally that starts at zero
BaseComplexityZero == 1 - 1

BaseComplexity == 1

RECURSIVE CountTypes(_, _, _)
CountTypes(tree, visited, types) ==
    IF visited = <<>> THEN 0
    ELSE (IF tree[Head(visited)].type \in types THEN 1 ELSE 0)
         + CountTypes(tree, Tail(visited), types)

calculateCyclomaticComplexity(tree, n) ==
    BaseComplexity + CountTypes(tree, Traverse(tree, walk(tree, n)), incrementingNodes)

countMethods(tree, n) ==
    CountTypes(tree, Traverse(tree, walk(tree, n)), {"function_definition"})

calculateInheritanceDepth(tree, n) ==
    LET visited == Traverse(tree, walk(tree, n))
        \* base_class links followed from a class node
        depth(c) == IF childForFieldNameBaseClass(tree, c) = NULL THEN 0 ELSE 1
        ds == {depth(visited[i]) : i \in {j \in 1..Len(visited) :
                                          tree[visited[j]].type = "class_specifier"}}
    IN  IF ds = {} THEN 0 ELSE CHOOSE d \in ds : \A e \in ds : e <= d

couplingNodes == {"qualified_identifier", "field_expression", "call_expression"}

calculateCoupling(tree, n) ==
    LET visited == Traverse(tree, walk(tree, n))
        dependencies == {tree[visited[i]].name :
                            i \in {j \in 1..Len(visited) :
                                      /\ tree[visited[j]].type \in couplingNodes
                                      /\ tree[visited[j]].name # "std"}}
    IN  Cardinality(dependencies)

(***************************************************************************)
(* calculateCohesion, first pass: the methods in visiting order and, per   *)
(* method name, the set of fields accessed after it was met.               *)
(***************************************************************************)
RECURSIVE CollectMethods(_, _, _)
CollectMethods(tree, visited, acc) ==
    IF visited = <<>> THEN acc
    ELSE
      LET node == tree[Head(visited)]
          currentMethod ==
              IF acc.methods = <<>> THEN "" ELSE acc.methods[Len(acc.methods)]
          next ==
              IF node.type = "function_definition"
              THEN [methods |-> Append(acc.methods, node.name),
                    fieldAccesses |->
                        [m \in DOMAIN acc.fieldAccesses \cup {node.name} |->
                            IF m = node.name THEN {} ELSE acc.fieldAccesses[m]]]
              ELSE IF /\ node.type = "field_expression"
                      /\ currentMethod # ""
                      /\ node.name # ""
              THEN [acc EXCEPT !.fieldAccesses[currentMethod] = @ \cup {node.name}]
              ELSE acc
      IN  CollectMethods(tree, Tail(visited), next)

\* second pass: the pairs i < j of methods, and those sharing a field
MethodPairs(methods) ==
    {p \in (1..Len(methods)) \X (1..Len(methods)) : p[1] < p[2]}

ConnectedPairs(methods, fieldAccesses) ==
    {p \in MethodPairs(methods) :
        fieldAccesses[methods[p[1]]] \cap fieldAccesses[methods[p[2]]] # {}}

\* a score of 0 for a unit without pairs
NoPairsScoreZero == [num |-> 0, den |-> 1]

\* the score when there is no pair of methods
NoPairsScore == [num |-> 1, den |-> 1]

\* a score is the fraction num / den
CohesionScore(methods, fieldAccesses) ==
    LET methodPairs == Cardinality(MethodPairs(methods))
        connectedPairs == Cardinality(ConnectedPairs(methods, fieldAccesses))
    IN  IF methodPairs > 0
        THEN [num |-> connectedPairs, den |-> methodPairs]
        ELSE NoPairsScore

CollectedMethods(tree, n) ==
    CollectMethods(tree, Traverse(tree, walk(tree, n)),
                   [methods |-> <<>>, fieldAccesses |-> <<>>])

calculateCohesion(tree, n) ==
    LET c == CollectedMethods(tree, n)
    IN  CohesionScore(c.methods, c.fieldAccesses)

\* calculateMetrics(code): the metrics of the root of the tree parsed from code
calculateMetrics(tree, codeLines) ==
    [cyclomaticComplexity |-> calculateCyclomaticComplexity(tree, 1),
     linesOfCode          |-> codeLines,
     methodCount          |-> countMethods(tree, 1),
     inheritanceDepth     |-> calculateInheritanceDepth(tree, 1),
     couplingCount        |-> calculateCoupling(tree, 1),
     cohesionScore        |-> calculateCohesion(tree, 1)]

(***************************************************************************)
(* Structural detectors.  Both hand a visitor object to ast.walk(...);     *)
(* web-tree-sitter's SyntaxNode.walk() takes no argument and returns a     *)
(* TreeCursor, so the visitor's enter callback is invoked on no node.      *)
(***************************************************************************)
WalkCallbacks(tree, n) == <<>>

\* the enter callback of detectLongFunctions on one node
enterLongFunction(tree, node, fileName) ==
    LET body == childForFieldNameBody(tree, node)
        lines == tree[body].lines
        startLine == tree[node].row + 1
    IN  IF /\ tree[node].type = "function_definition"
           /\ body # NULL
           /\ lines > 20
        THEN <<[type |-> "LongFunction",
                fileName |-> fileName,
                lineNumber |-> startLine,
                endLineNumber |-> startLine + lines,
                entityName |-> IF tree[node].name = "" THEN "anonymous"
                               ELSE tree[node].name,
                count |-> lines,
                severity |-> IF lines > 40 THEN "high"
                             ELSE IF lines > 30 THEN "medium"
                             ELSE "low",
                metrics |->
                   [cyclomaticComplexity |-> calculateCyclomaticComplexity(tree, node),
                    linesOfCode |-> lines,
                    methodCount |-> 1,
                    inheritanceDepth |-> 0,
                    couplingCount |-> calculateCoupling(tree, node),
                    cohesionScore |-> [num |-> 1, den |-> 1]]]>>
        ELSE <<>>

RECURSIVE Pushed(_)
\* the smells array after a loop: what each iteration pushed, in order
Pushed(perIteration) ==
    IF perIteration = <<>> THEN <<>>
    ELSE Head(perIteration) \o Pushed(Tail(perIteration))

detectLongFunctions(tree, fileName) ==
    LET entered == WalkCallbacks(tree, 1)
    IN  Pushed([i \in 1..Len(entered) |-> enterLongFunction(tree, entered[i], fileName)])

\* the enter callback of detectLargeClasses on one node
enterLargeClass(tree, node, fileName) ==
    LET body == childForFieldNameBody(tree, node)
        lines == tree[body].lines
        methodCount == countMethods(tree, node)
    IN  IF /\ tree[node].type = "class_specifier"
           /\ body # NULL
           /\ (lines > 200 \/ methodCount > 10)
        THEN <<[type |-> "LargeClass",
                fileName |-> fileName,
                lineNumber |-> tree[node].row + 1,
                entityName |-> IF tree[node].name = "" THEN "anonymous"
                               ELSE tree[node].name,
                count |-> lines,
                severity |-> IF lines > 500
                                \/ methodCount > 20
                             THEN "high" ELSE "medium",
                metrics |->
                   [cyclomaticComplexity |-> calculateCyclomaticComplexity(tree, node),
                    linesOfCode |-> lines,
                    methodCount |-> methodCount,
                    inheritanceDepth |-> calculateInheritanceDepth(tree, node),
                    couplingCount |-> calculateCoupling(tree, node),
                    cohesionScore |-> calculateCohesion(tree, node)]]>>
        ELSE <<>>

detectLargeClasses(tree, fileName) ==
    LET entered == WalkCallbacks(tree, 1)
    IN  Pushed([i \in 1..Len(entered) |-> enterLargeClass(tree, entered[i], fileName)])

(***************************************************************************)
(* Lexical detectors.  A file's text enters the model as what the          *)
(* detectors read off it: its lines, and the matches of each detector's    *)
(* regular expression in the order exec() returns them, with the captured  *)
(* groups reduced to what the detector computes from them.                 *)
(*   lines        per line, whether the trimmed line includes "{" and "}"  *)
(*   signatures   matches of functionRegex / methodRegex                   *)
(*                [functionName, line, params], a param being              *)
(*                [blank, primitive, suffix]                               *)
(*   declarations matches of globalVarRegex [varName, line, opens, closes] *)
(*                with the numbers of "{" and "}" before the match         *)
(*   bodies       matches of the duplicate-code functionRegex              *)
(*                [functionName, line, normalizedBody, length]             *)
(*   classes      matches of classRegex [className, line, accesses], the   *)
(*                object names of the "." accesses then of the "->" ones   *)
(*   conditions   matches of ifRegex [line, operatorCount]                 *)
(***************************************************************************)
Smell(type, fileName, lineNumber, entityName, count, severity) ==
    [type |-> type, fileName |-> fileName, lineNumber |-> lineNumber,
     entityName |-> entityName, count |-> count, severity |-> severity]

\* a count that keeps the empty segments of the split
paramCountWithBlanks(params) ==
    Len(params)

paramCount(params) ==
    Cardinality({i \in 1..Len(params) : ~params[i].blank})

emitLongParameterList(match, fileName) ==
    LET n == paramCount(match.params)
    IN  IF n > 4
        THEN <<Smell("LongParameterList", fileName, match.line, match.functionName, n,
                     IF n > 7 THEN "high" ELSE IF n > 5 THEN "medium" ELSE "low")>>
        ELSE <<>>

detectLongParameterLists(content, fileName) ==
    Pushed([i \in 1..Len(content.signatures) |-> emitLongParameterList(content.signatures[i], fileName)])

\* a test on the opening braces alone
emitGlobalVariableOpensOnly(match, fileName) ==
    LET braceCount == match.opens
    IN  IF braceCount = 0
        THEN <<Smell("GlobalVariables", fileName, match.line, match.varName, 0, "medium")>>
        ELSE <<>>

emitGlobalVariable(match, fileName) ==
    LET braceCount == match.opens - match.closes
    IN  IF braceCount = 0
        THEN <<Smell("GlobalVariables", fileName, match.line, match.varName, 0, "medium")>>
        ELSE <<>>

detectGlobalVariables(content, fileName) ==
    Pushed([i \in 1..Len(content.declarations) |-> emitGlobalVariable(content.declarations[i], fileName)])

\* the latest earlier match with that body
LastWithBody(bodies, k) ==
    LET earlier == {i \in 1..(k - 1) : /\ bodies[i].length > 100
                                       /\ bodies[i].normalizedBody = bodies[k].normalizedBody}
    IN  IF earlier = {} THEN NULL ELSE CHOOSE i \in earlier : \A j \in earlier : i >= j

\* functionBodies.get(normalizedBody): the first earlier match with that body
FirstWithBody(bodies, k) ==
    LET earlier == {i \in 1..(k - 1) : /\ bodies[i].length > 100
                                       /\ bodies[i].normalizedBody = bodies[k].normalizedBody}
    IN  IF earlier = {} THEN NULL ELSE CHOOSE i \in earlier : \A j \in earlier : i <= j

RECURSIVE DuplicatesFrom(_, _, _)
DuplicatesFrom(bodies, k, fileName) ==
    IF k > Len(bodies) THEN <<>>
    ELSE (IF bodies[k].length > 100 /\ FirstWithBody(bodies, k) # NULL
          THEN <<[original |-> bodies[FirstWithBody(bodies, k)].functionName,
                  originalLine |-> bodies[FirstWithBody(bodies, k)].line]
                 @@ Smell("DuplicateCode", fileName, bodies[k].line,
                          bodies[k].functionName, 0, "high")>>
          ELSE <<>>)
         \o DuplicatesFrom(bodies, k + 1, fileName)

\* the bodies of the analyses that have returned, in task order
RECURSIVE EarlierBodies(_)
EarlierBodies(t) ==
    IF t = 0 THEN <<>>
    ELSE EarlierBodies(t - 1)
         \o (IF tasks[t].pc = "fulfilled" THEN tasks[t].file.content.bodies ELSE <<>>)

\* functionBodies kept from one invocation to the next
detectDuplicateCodeSharedMap(content, fileName) ==
    DuplicatesFrom(EarlierBodies(Len(tasks)) \o content.bodies,
                   Len(EarlierBodies(Len(tasks))) + 1, fileName)

detectDuplicateCode(content, fileName) ==
    DuplicatesFrom(content.bodies, 1, fileName)

suspiciousParams(params) ==
    {i \in 1..Len(params) : params[i].suffix /\ params[i].primitive}

emitPrimitiveObsession(match, fileName) ==
    IF Cardinality(suspiciousParams(match.params)) >= 2
    THEN <<Smell("PrimitiveObsession", fileName, match.line, match.functionName, 0, "medium")>>
    ELSE <<>>

detectPrimitiveObsession(content, fileName) ==
    Pushed([i \in 1..Len(content.signatures) |-> emitPrimitiveObsession(content.signatures[i], fileName)])

ExcludedObjects == {"this", "std", "string"}

\* classReferences: the counted object names, in order of first insertion
RECURSIVE ReferencedObjects(_, _)
ReferencedObjects(accesses, seen) ==
    IF accesses = <<>> THEN seen
    ELSE ReferencedObjects(Tail(accesses),
            IF \/ Head(accesses) \in ExcludedObjects
               \/ \E i \in 1..Len(seen) : seen[i] = Head(accesses)
            THEN seen ELSE Append(seen, Head(accesses)))

AccessCount(accesses, objName) ==
    Cardinality({i \in 1..Len(accesses) : accesses[i] = objName})

RECURSIVE IntimacyOf(_, _, _)
IntimacyOf(match, objects, fileName) ==
    IF objects = <<>> THEN <<>>
    ELSE LET count == AccessCount(match.accesses, Head(objects))
         IN  (IF count > 5
              THEN <<[referencedClass |-> Head(objects)]
                     @@ Smell("InappropriateIntimacy", fileName, match.line,
                              match.className, count,
                              IF count > 10 THEN "high" ELSE "medium")>>
              ELSE <<>>)
             \o IntimacyOf(match, Tail(objects), fileName)

emitInappropriateIntimacy(match, fileName) ==
    IntimacyOf(match, ReferencedObjects(match.accesses, <<>>), fileName)

detectInappropriateIntimacy(content, fileName) ==
    Pushed([i \in 1..Len(content.classes) |-> emitInappropriateIntimacy(content.classes[i], fileName)])

emitComplexCondition(match, fileName) ==
    IF match.operatorCount > 3
    THEN <<Smell("ComplexCondition", fileName, match.line, "condition",
                 match.operatorCount,
                 IF match.operatorCount > 5 THEN "high" ELSE "medium")>>
    ELSE <<>>

\* the findings pushed for the analyses that have returned, in task order
RECURSIVE EarlierConditionFindings(_)
EarlierConditionFindings(t) ==
    IF t = 0 THEN <<>>
    ELSE EarlierConditionFindings(t - 1)
         \o (IF tasks[t].pc = "fulfilled"
             THEN Pushed([i \in 1..Len(tasks[t].file.content.conditions) |->
                             emitComplexCondition(tasks[t].file.content.conditions[i],
                                                  tasks[t].file.name)])
             ELSE <<>>)

\* a smells array kept from one invocation to the next
detectComplexConditionsSharedArray(content, fileName) ==
    EarlierConditionFindings(Len(tasks))
    \o Pushed([i \in 1..Len(content.conditions) |-> emitComplexCondition(content.conditions[i], fileName)])

detectComplexConditions(content, fileName) ==
    Pushed([i \in 1..Len(content.conditions) |-> emitComplexCondition(content.conditions[i], fileName)])

\* one iteration of the line loop of detectDeepNesting on line i
NestingStep(st, line, i, fileName) ==
    LET opened ==
            IF line.open
            THEN [st EXCEPT
                    !.currentNestingLevel = @ + 1,
                    !.maxNestingLevel =
                        IF st.currentNestingLevel + 1 > @
                        THEN st.currentNestingLevel + 1 ELSE @,
                    !.nestingStartLine =
                        IF st.currentNestingLevel + 1 > st.maxNestingLevel
                        THEN i ELSE @]
            ELSE st
        pushed ==
            IF /\ opened.currentNestingLevel = opened.maxNestingLevel
               /\ opened.maxNestingLevel > 3
            THEN [opened EXCEPT !.smells =
                    Append(@, Smell("DeepNesting", fileName, opened.nestingStartLine,
                                    "nested_block", opened.maxNestingLevel,
                                    IF opened.maxNestingLevel > 4
                                    THEN "high" ELSE "medium"))]
            ELSE opened
        closed ==
            [pushed EXCEPT
                !.currentNestingLevel = @ - 1,
                !.maxNestingLevel = IF pushed.currentNestingLevel - 1 = 0 THEN 0 ELSE @]
    IN  IF line.close THEN closed ELSE opened

RECURSIVE NestingLoop(_, _, _, _)
NestingLoop(st, lines, i, fileName) ==
    IF i > Len(lines) THEN st
    ELSE NestingLoop(NestingStep(st, lines[i], i, fileName), lines, i + 1, fileName)

detectDeepNesting(content, fileName) ==
    NestingLoop([currentNestingLevel |-> 0, maxNestingLevel |-> 0,
                 nestingStartLine |-> 0, smells |-> <<>>],
                content.lines, 1, fileName).smells

(***************************************************************************)
(* SpecTree: the tree functions applied to every node of every small tree. *)
(***************************************************************************)
UsesName(type) == type \in {"function_definition", "class_specifier", "field_expression"}

ParentArrays(n) ==
    {pa \in [1..n -> 0..(n - 1)] :
        /\ pa[1] = 0
        /\ \A i \in 2..n : pa[i] \in 1..(i - 1)}

\* a tree of n nodes; all blocks of one tree have the same number of lines
MakeTree(n, ty, pa, nm, bl) ==
    [i \in 1..n |->
        [type   |-> ty[i],
         parent |-> pa[i],
         name   |-> IF UsesName(ty[i]) THEN nm[i] ELSE "",
         lines  |-> IF ty[i] = "compound_statement" THEN bl ELSE 1,
         row    |-> 0]]

\* the fields of the provider: before initialize(), during it, after it,
\* and during a later initialize() that has replaced the parser
ProviderStates ==
    {[initialized |-> FALSE, parser |-> "null"],
     [initialized |-> FALSE, parser |-> "bare"],
     [initialized |-> FALSE, parser |-> "cpp"],
     [initialized |-> TRUE, parser |-> "cpp"],
     [initialized |-> TRUE, parser |-> "bare"]}

InitTree ==
    /\ \E n \in 1..MaxNodes :
         \E ty \in {f \in [1..n -> NodeTypes] :
                         \A i \in 1..n : (f[i] = "translation_unit") <=> (i = 1)},
            pa \in ParentArrays(n),
            nm \in [1..n -> Names], bl \in LineCounts :
             fnArg = MakeTree(n, ty, pa, nm, bl)
    /\ fnName = "none"
    /\ fnRet = NULL
    /\ \E ps \in ProviderStates :
          /\ initialized = ps.initialized
          /\ parser = ps.parser
    /\ instance = TRUE
    /\ wasm = IF parser = "null" THEN "unknown" ELSE "ok"
    /\ InitPage

Apply(name, value) ==
    /\ fnName = "none"
    /\ fnName' = name
    /\ fnRet' = value
    /\ UNCHANGED <<fnArg, appVars>>

ApplyCyclomaticComplexity ==
    \E n \in 1..Len(fnArg) :
        Apply("calculateCyclomaticComplexity",
              [node |-> n, value |-> calculateCyclomaticComplexity(fnArg, n)])

ApplyCountMethods ==
    \E n \in 1..Len(fnArg) :
        Apply("countMethods", [node |-> n, value |-> countMethods(fnArg, n)])

ApplyCohesion ==
    \E n \in 1..Len(fnArg) :
        Apply("calculateCohesion",
              [node |-> n, value |-> calculateCohesion(fnArg, n),
               collected |-> CollectedMethods(fnArg, n)])

\* parseCode(code), fnArg being the tree of code
ApplyParseCode ==
    Apply("parseCode",
          [error |-> IF parseCode = "tree" THEN "" ELSE parseCode,
           tree  |-> IF parseCode = "tree" THEN fnArg ELSE <<>>])

\* calculateMetrics(code) parses code first
ApplyMetrics ==
    IF parseCode = "tree"
    THEN Apply("calculateMetrics", [node |-> 1, value |-> calculateMetrics(fnArg, 1)])
    ELSE Apply("calculateMetrics threw", [error |-> parseCode])

\* the structural detectors on the root of a tree; getInstance() hands the
\* initialized instance out
ApplyLongFunctions ==
    /\ initialized
    /\ Apply("detectLongFunctions",
             [node |-> 1, value |-> detectLongFunctions(fnArg, "a.cpp")])

ApplyLargeClasses ==
    /\ initialized
    /\ Apply("detectLargeClasses",
             [node |-> 1, value |-> detectLargeClasses(fnArg, "a.cpp")])

NextTree ==
    \/ ApplyParseCode
    \/ ApplyCyclomaticComplexity
    \/ ApplyCountMethods
    \/ ApplyCohesion
    \/ ApplyMetrics
    \/ ApplyLongFunctions
    \/ ApplyLargeClasses

SpecTree == InitTree /\ [][NextTree]_vars

(***************************************************************************)
(* calculateStats.  JavaScript numbers that need not be integers are       *)
(* fractions [num, den].  A division by zero raises nothing: its result    *)
(* is the fraction with den = 0, which is NaN for 0/0 and Infinity for     *)
(* x/0.                                                                    *)
(***************************************************************************)
CodeSmellTypes == {"LongFunction", "LargeClass", "DuplicateCode",
                   "PrimitiveObsession", "LongParameterList",
                   "InappropriateIntimacy", "GlobalVariables",
                   "ComplexCondition", "DeepNesting"}

MetricFields == {"cyclomaticComplexity", "linesOfCode", "methodCount",
                 "inheritanceDepth", "couplingCount", "cohesionScore"}

Fraction(x) == [num |-> x, den |-> 1]

\* a metric of a File Result as a fraction; cohesionScore already is one
MetricValue(metrics, f) ==
    IF f = "cohesionScore" THEN metrics[f] ELSE Fraction(metrics[f])

AddFractions(a, b) ==
    [num |-> a.num * b.den + b.num * a.den, den |-> a.den * b.den]

Divide(a, n) == [num |-> a.num, den |-> a.den * n]

IsNaN(x) == x.den = 0 /\ x.num = 0
IsInfinity(x) == x.den = 0 /\ x.num # 0

RECURSIVE SumTotalSmells(_)
SumTotalSmells(fileResults) ==
    IF fileResults = <<>> THEN 0
    ELSE Head(fileResults).totalSmells + SumTotalSmells(Tail(fileResults))

\* the literal without one of its keys
SmellsByTypeMissingKind ==
    [k \in CodeSmellTypes \ {"LargeClass"} |-> 0]

\* the literal smellsByType is initialised with
ZeroSmellsByType == [k \in CodeSmellTypes |-> 0]

RECURSIVE TallySmells(_, _)
TallySmells(smells, byType) ==
    IF smells = <<>> THEN byType
    ELSE TallySmells(Tail(smells),
                     [byType EXCEPT ![Head(smells).type] = @ + 1])

\* smellsByFile[result.fileName] = result.totalSmells; the entries of a
\* JavaScript object keep the order in which their keys were first set
SetSmellsByFile(byFile, fileName, count) ==
    IF \E i \in 1..Len(byFile) : byFile[i].fileName = fileName
    THEN [i \in 1..Len(byFile) |->
             IF byFile[i].fileName = fileName
             THEN [fileName |-> fileName, smellCount |-> count]
             ELSE byFile[i]]
    ELSE Append(byFile, [fileName |-> fileName, smellCount |-> count])

\* fileResults.forEach(...)
RECURSIVE ForEachResult(_, _)
ForEachResult(fileResults, acc) ==
    IF fileResults = <<>> THEN acc
    ELSE LET result == Head(fileResults)
         IN  ForEachResult(Tail(fileResults),
                 [smellsByFile |-> SetSmellsByFile(acc.smellsByFile,
                                       result.fileName, result.totalSmells),
                  smellsByType |-> TallySmells(result.smells, acc.smellsByType)])

\* an entry goes ahead of those that compare equal to it
InsertSortedAheadOfTies(sorted, e) ==
    LET before == {i \in 1..Len(sorted) : sorted[i].smellCount > e.smellCount}
        k == Cardinality(before)
    IN  SubSeq(sorted, 1, k) \o <<e>> \o SubSeq(sorted, k + 1, Len(sorted))

\* Array.prototype.sort is stable: an entry goes behind those that do not
\* compare after it
InsertSorted(sorted, e) ==
    LET before == {i \in 1..Len(sorted) : sorted[i].smellCount >= e.smellCount}
        k == Cardinality(before)
    IN  SubSeq(sorted, 1, k) \o <<e>> \o SubSeq(sorted, k + 1, Len(sorted))

RECURSIVE SortBySmellCount(_)
SortBySmellCount(entries) ==
    IF entries = <<>> THEN <<>>
    ELSE InsertSorted(SortBySmellCount(SubSeq(entries, 1, Len(entries) - 1)),
                      entries[Len(entries)])

Slice(s, n) == SubSeq(s, 1, IF Len(s) < n THEN Len(s) ELSE n)

RECURSIVE SumMetrics(_, _)
SumMetrics(fileResults, acc) ==
    IF fileResults = <<>> THEN acc
    ELSE SumMetrics(Tail(fileResults),
            [f \in MetricFields |->
                AddFractions(acc[f], MetricValue(Head(fileResults).metrics, f))])

calculateStats(fileResults) ==
    LET totalFiles == Len(fileResults)
        totalSmells == SumTotalSmells(fileResults)
        each == ForEachResult(fileResults, [smellsByFile |-> <<>>,
                                        smellsByType |-> ZeroSmellsByType])
        worstFiles == Slice(SortBySmellCount(each.smellsByFile), 5)
        avgMetrics == SumMetrics(fileResults, [f \in MetricFields |-> Fraction(0)])
    IN  [totalFiles     |-> totalFiles,
         totalSmells    |-> totalSmells,
         smellsByType   |-> each.smellsByType,
         smellsByFile   |-> each.smellsByFile,
         worstFiles     |-> worstFiles,
         averageMetrics |-> [f \in MetricFields |-> Divide(avgMetrics[f], totalFiles)]]

(***************************************************************************)
(* SpecStats: calculateStats applied to every small list of File Results.  *)
(***************************************************************************)
MaxResults == 2
MaxSmells == 1

FileNames == {"a.cpp", "b.h"}

InputKinds == {"LongFunction", "GlobalVariables", "DeepNesting"}

RootMetrics(loc) ==
    [cyclomaticComplexity |-> 1, linesOfCode |-> loc, methodCount |-> 0,
     inheritanceDepth |-> 0, couplingCount |-> 0,
     cohesionScore |-> [num |-> 1, den |-> 1]]

SampleMetrics ==
    {RootMetrics(1), RootMetrics(30),
     [cyclomaticComplexity |-> 2, linesOfCode |-> 30, methodCount |-> 1,
      inheritanceDepth |-> 0, couplingCount |-> 1,
      cohesionScore |-> [num |-> 1, den |-> 2]]}

SmellLists ==
    UNION {[1..n -> [type : InputKinds]] : n \in 0..MaxSmells}

\* a File Result as analyzeCode composes it: totalSmells is smells.length
FileResults ==
    {[fileName |-> name, smells |-> smells, totalSmells |-> Len(smells),
      metrics |-> m] : name \in FileNames, smells \in SmellLists, m \in SampleMetrics}

\* batches of up to MaxRanked files of distinct names, told apart by their
\* numbers of findings
MaxRanked == 6

RankedNames == <<"a.cpp", "b.h", "c.cpp", "d.cpp", "e.cpp", "f.cpp", "g.cpp", "h.cpp">>

RankedCounts == {0, 1, 2}

RankedBatches(n) ==
    {[i \in 1..n |->
        [fileName |-> RankedNames[i],
         smells |-> [j \in 1..c[i] |-> [type |-> "LongFunction"]],
         totalSmells |-> c[i],
         metrics |-> RootMetrics(1)]] : c \in [1..n -> RankedCounts]}

InitStats ==
    /\ \/ fnArg \in UNION {[1..n -> FileResults] : n \in 0..MaxResults}
       \/ fnArg \in UNION {RankedBatches(n) : n \in 3..MaxRanked}
    /\ fnName = "none"
    /\ fnRet = NULL
    /\ InitApp

ApplyStats == Apply("calculateStats", calculateStats(fnArg))

NextStats == ApplyStats

SpecStats == InitStats /\ [][NextStats]_vars

(***************************************************************************)
(* Properties of calculateStats (SpecStats).                               *)
(***************************************************************************)
RECURSIVE SumCounts(_)
SumCounts(entries) ==
    IF entries = <<>> THEN 0
    ELSE Head(entries).smellCount + SumCounts(Tail(entries))

\* C2: for every list of File Results, lists with a repeated fileName
\* included, the values of smellsByFile sum to totalSmells.
C2_ByFileSumsToTotal ==
    fnName = "calculateStats" =>
        SumCounts(fnRet.smellsByFile) = fnRet.totalSmells

IsNumber(x) == ~IsNaN(x) /\ ~IsInfinity(x)

\* C3: on the empty batch no division by the file count 0 happens: every
\* field of averageMetrics is a number, and totalFiles = totalSmells = 0.
C3_EmptyBatchGuarded ==
    (fnName = "calculateStats" /\ fnArg = <<>>) =>
        /\ \A f \in MetricFields : IsNumber(fnRet.averageMetrics[f])
        /\ fnRet.totalFiles = 0
        /\ fnRet.totalSmells = 0

FindingsOfKind(fileResults, k) ==
    UNION {{<<i, j>> : j \in {x \in 1..Len(fileResults[i].smells) :
                                  fileResults[i].smells[x].type = k}} :
           i \in 1..Len(fileResults)}

\* C8: smellsByType has an entry for each of the nine smell kinds, equal to
\* the number of findings of that kind over all File Results of the batch
\* (0 for a kind no file has).
C8_EveryKindTallied ==
    fnName = "calculateStats" =>
        /\ DOMAIN fnRet.smellsByType = CodeSmellTypes
        /\ Cardinality(CodeSmellTypes) = 9
        /\ \A k \in CodeSmellTypes :
              fnRet.smellsByType[k] = Cardinality(FindingsOfKind(fnArg, k))

C8_Witness ==
    /\ fnName = "calculateStats"
    /\ fnRet.smellsByType["LongFunction"] = 2
    /\ fnRet.smellsByType["LargeClass"] = 0

\* a file of the batch is a file name; its place is that of the first
\* File Result of that name, its count the per-file tally of the stats
BatchNames(fileResults) == {fileResults[i].fileName : i \in 1..Len(fileResults)}

FirstPlace(fileResults, name) ==
    CHOOSE i \in 1..Len(fileResults) :
        /\ fileResults[i].fileName = name
        /\ \A j \in 1..(i - 1) : fileResults[j].fileName # name

TallyOf(byFile, name) ==
    byFile[CHOOSE i \in 1..Len(byFile) : byFile[i].fileName = name].smellCount

\* C14: worstFiles has at most 5 entries, one per file, in non-increasing
\* order of finding count; no file left out has more findings than a file
\* listed; files with equal counts stand in their order in the input
\* batch, and a file left out with the count of a listed one comes after
\* it in the batch.
C14_WorstFilesStableTopFive ==
    fnName = "calculateStats" =>
        LET worst == fnRet.worstFiles
            names == BatchNames(fnArg)
            listed == {worst[i].fileName : i \in 1..Len(worst)}
            place(name) == FirstPlace(fnArg, name)
        IN  /\ Len(worst) <= 5
            /\ Len(worst) = IF Cardinality(names) < 5 THEN Cardinality(names) ELSE 5
            /\ Cardinality(listed) = Len(worst)
            /\ listed \subseteq names
            /\ \A i \in 1..Len(worst) :
                  worst[i].smellCount = TallyOf(fnRet.smellsByFile, worst[i].fileName)
            /\ \A i, j \in 1..Len(worst) :
                  i < j => /\ worst[i].smellCount >= worst[j].smellCount
                           /\ worst[i].smellCount = worst[j].smellCount =>
                                 place(worst[i].fileName) < place(worst[j].fileName)
            /\ \A name \in names \ listed : \A i \in 1..Len(worst) :
                  /\ TallyOf(fnRet.smellsByFile, name) <= worst[i].smellCount
                  /\ TallyOf(fnRet.smellsByFile, name) = worst[i].smellCount =>
                        place(worst[i].fileName) < place(name)

C14_Witness ==
    /\ fnName = "calculateStats"
    /\ Len(fnArg) = 6
    /\ Len(fnRet.worstFiles) = 5
    /\ fnRet.worstFiles[1].smellCount = fnRet.worstFiles[2].smellCount
    /\ fnRet.worstFiles[1].fileName # fnArg[1].fileName
    /\ fnRet.worstFiles[5].smellCount = 1

(***************************************************************************)
(* Properties of the tree functions (SpecTree).                            *)
(***************************************************************************)
RECURSIVE Descendants(_, _)
Descendants(tree, n) ==
    {n} \cup UNION {Descendants(tree, c) : c \in Children(tree, n)}

DecisionNodes(tree, n) ==
    {d \in Descendants(tree, n) : tree[d].type \in incrementingNodes}

\* C5: calculateCyclomaticComplexity(node) is 1 plus the number of decision
\* constructs among all nodes of the sub-tree rooted at node, proper
\* descendants included.
C5_CountsEveryDescendant ==
    fnName = "calculateCyclomaticComplexity" =>
        fnRet.value = 1 + Cardinality(DecisionNodes(fnArg, fnRet.node))

\* C6: every cyclomatic complexity the calculator returns, for a node, for a
\* whole file and in the metrics attached to a finding, is at least 1.
C6_ComplexityAtLeastOne ==
    /\ fnName = "calculateCyclomaticComplexity" => fnRet.value >= 1
    /\ fnName = "calculateMetrics" => fnRet.value.cyclomaticComplexity >= 1
    /\ fnName \in {"detectLongFunctions", "detectLargeClasses"} =>
          \A i \in 1..Len(fnRet.value) :
              fnRet.value[i].metrics.cyclomaticComplexity >= 1

C6_Witness ==
    /\ fnName = "calculateCyclomaticComplexity"
    /\ fnArg[fnRet.node].type = "if_statement"
    /\ fnRet.value = 2

\* unordered pairs of collected methods, and those whose field sets meet
UnorderedPairs(methods) ==
    {S \in SUBSET (1..Len(methods)) : Cardinality(S) = 2}

SharingPairs(c) ==
    {S \in UnorderedPairs(c.methods) :
        \E i, j \in S : /\ i # j
                        /\ c.fieldAccesses[c.methods[i]]
                             \cap c.fieldAccesses[c.methods[j]] # {}}

\* C7: calculateCohesion returns a fraction in [0,1]: connectedPairs over
\* totalPairs of the collected methods, and exactly 1 when fewer than two
\* methods are collected.
C7_CohesionInUnitInterval ==
    fnName = "calculateCohesion" =>
        LET v == fnRet.value
            c == fnRet.collected
        IN  /\ v.den > 0
            /\ 0 <= v.num
            /\ v.num <= v.den
            /\ Len(c.methods) < 2 => (v.num = 1 /\ v.den = 1)
            /\ Len(c.methods) >= 2 =>
                  /\ v.den = Cardinality(UnorderedPairs(c.methods))
                  /\ v.num = Cardinality(SharingPairs(c))

C7_Witness ==
    /\ fnName = "calculateCohesion"
    /\ Len(fnRet.collected.methods) = 1
    /\ fnRet.value = [num |-> 1, den |-> 1]

FunctionsWithBody(tree) ==
    {n \in 1..Len(tree) : /\ tree[n].type = "function_definition"
                          /\ childForFieldNameBody(tree, n) # NULL}

BodyLines(tree, n) == tree[childForFieldNameBody(tree, n)].lines

\* C10: detectLongFunctions emits one LongFunction finding for every
\* function-definition node whose body has more than 20 lines and none for
\* the others; 21..30 lines is low, 31..40 medium, 41 and more high.
C10_LongFunctionBoundaries ==
    fnName = "detectLongFunctions" =>
        /\ Len(fnRet.value) =
             Cardinality({n \in FunctionsWithBody(fnArg) : BodyLines(fnArg, n) > 20})
        /\ \A i \in 1..Len(fnRet.value) :
              LET f == fnRet.value[i]
              IN  /\ f.type = "LongFunction"
                  /\ f.count > 20
                  /\ f.severity = IF f.count >= 41 THEN "high"
                                  ELSE IF f.count >= 31 THEN "medium"
                                  ELSE "low"

\* C16: parseCode on a provider that has not completed its initialization
\* (initialized is false or there is no parser) throws and returns no tree,
\* and so does calculateMetrics, which parses first.
C16_ParseCodeNeedsInitialization ==
    /\ (fnName = "parseCode" /\ (~initialized \/ parser = "null")) =>
          /\ fnRet.error = "ASTParser not initialized"
          /\ fnRet.tree = <<>>
    /\ fnName = "calculateMetrics" => (initialized /\ parser # "null")

C16_Witness ==
    /\ fnName = "parseCode"
    /\ ~initialized
    /\ parser = "cpp"
    /\ fnRet.error = "ASTParser not initialized"

ClassesWithBody(tree) ==
    {n \in 1..Len(tree) : /\ tree[n].type = "class_specifier"
                          /\ childForFieldNameBody(tree, n) # NULL}

MethodsOf(tree, n) ==
    {d \in Descendants(tree, n) : tree[d].type = "function_definition"}

IsLargeClass(tree, n) ==
    BodyLines(tree, n) > 200 \/ Cardinality(MethodsOf(tree, n)) > 10

\* C11: detectLargeClasses emits one LargeClass finding for every class node
\* whose body has more than 200 lines or which contains more than 10
\* methods, and none for the others; the finding is high when the body has
\* more than 500 lines or the class more than 20 methods, medium otherwise.
C11_LargeClassBoundaries ==
    fnName = "detectLargeClasses" =>
        /\ Len(fnRet.value) =
             Cardinality({n \in ClassesWithBody(fnArg) : IsLargeClass(fnArg, n)})
        /\ \A i \in 1..Len(fnRet.value) :
              LET f == fnRet.value[i]
              IN  /\ f.type = "LargeClass"
                  /\ f.severity = IF f.count > 500 \/ f.metrics.methodCount > 20
                                  THEN "high" ELSE "medium"

\* C22: countMethods(node) returns the number of function-definition nodes
\* at or below node: for a class node the methods of the class, for the
\* root of a file the free and the member functions of the file.
C22_CountsFunctionDefinitions ==
    fnName = "countMethods" =>
        fnRet.value = Cardinality(MethodsOf(fnArg, fnRet.node))

(***************************************************************************)
(* SpecNesting: detectDeepNesting applied to every short text.  A text is  *)
(* its lines, a line the braces it holds from left to right; every other   *)
(* character is irrelevant to the detector.                                *)
(***************************************************************************)
MaxLines == 5

BraceLines == {<<>>, <<"{">>, <<"}">>, <<"}", "{">>, <<"{", "}">>, <<"{", "{">>}

\* line.includes('{') and line.includes('}')
LineFlags(braces) ==
    [open  |-> \E i \in 1..Len(braces) : braces[i] = "{",
     close |-> \E i \in 1..Len(braces) : braces[i] = "}"]

RECURSIVE Flatten(_)
Flatten(text) ==
    IF text = <<>> THEN <<>> ELSE Head(text) \o Flatten(Tail(text))

\* the brace depth after each brace of the text
RECURSIVE BraceDepths(_, _)
BraceDepths(braces, depth) ==
    IF braces = <<>> THEN <<>>
    ELSE LET d == IF Head(braces) = "{" THEN depth + 1 ELSE depth - 1
         IN  <<d>> \o BraceDepths(Tail(braces), d)

\* no closing brace without its opening brace
WellNested(text) ==
    LET ds == BraceDepths(Flatten(text), 0)
    IN  \A i \in 1..Len(ds) : ds[i] >= 0

InitNesting ==
    /\ fnArg \in {text \in UNION {[1..n -> BraceLines] : n \in 1..MaxLines} :
                      WellNested(text)}
    /\ fnName = "none"
    /\ fnRet = NULL
    /\ InitApp

ApplyDeepNesting ==
    Apply("detectDeepNesting",
          detectDeepNesting([lines |-> [i \in 1..Len(fnArg) |-> LineFlags(fnArg[i])]],
                            "a.cpp"))

NextNesting == ApplyDeepNesting

SpecNesting == InitNesting /\ [][NextNesting]_vars

\* the depth of the deepest block of the text: a block is closed by its "}"
MaxDepth(text) ==
    LET braces == Flatten(text)
        ds == BraceDepths(braces, 0)
        blocks == {ds[i] + 1 : i \in {j \in 1..Len(ds) : braces[j] = "}"}}
    IN  IF blocks = {} THEN 0
        ELSE CHOOSE d \in blocks : \A e \in blocks : e <= d

\* C12: for every text, detectDeepNesting emits no finding when the brace
\* nesting never exceeds depth 3, however the braces are placed on the
\* lines; a nesting of depth 4 yields a medium finding and a nesting of
\* depth 5 or more a high finding.
C12_DeepNestingBoundaries ==
    fnName = "detectDeepNesting" =>
        /\ MaxDepth(fnArg) <= 3 => fnRet = <<>>
        /\ MaxDepth(fnArg) = 4 => \E i \in 1..Len(fnRet) : fnRet[i].severity = "medium"
        /\ MaxDepth(fnArg) >= 5 => \E i \in 1..Len(fnRet) : fnRet[i].severity = "high"

\* currentNestingLevel after the first i lines of the text
NestingCounter(text, i) ==
    NestingLoop([currentNestingLevel |-> 0, maxNestingLevel |-> 0,
                 nestingStartLine |-> 0, smells |-> <<>>],
                [j \in 1..i |-> LineFlags(text[j])], 1, "a.cpp").currentNestingLevel

\* the line on which the counter last left zero at or before line i
RunStart(text, i) ==
    CHOOSE a \in 1..i :
        /\ NestingCounter(text, a - 1) = 0
        /\ \A b \in (a + 1)..i : NestingCounter(text, b - 1) # 0

\* C21: detectDeepNesting emits at most one DeepNesting finding per
\* top-level nesting run (the lines between the counter leaving zero and
\* returning to zero), even when the run holds several sibling blocks that
\* each reach the run's maximum depth.
C21_OneFindingPerNestingRun ==
    fnName = "detectDeepNesting" =>
        \A j, k \in 1..Len(fnRet) :
            j # k => RunStart(fnArg, fnRet[j].lineNumber)
                        # RunStart(fnArg, fnRet[k].lineNumber)

(***************************************************************************)
(* SpecDuplicates: detectDuplicateCode applied to every short list of      *)
(* matches of its functionRegex.  The k-th match starts on line k; its     *)
(* normalized body is one of a few texts, whose length goes with the text. *)
(***************************************************************************)
MaxBodies == 3

FunctionNames == {"f", "g"}

NormalizedBodies ==
    {[normalizedBody |-> "s", length |-> 100],
     [normalizedBody |-> "p", length |-> 101],
     [normalizedBody |-> "q", length |-> 150]}

BodyMatches(n) ==
    {[k \in 1..n |-> [functionName |-> nm[k], line |-> k,
                      normalizedBody |-> bd[k].normalizedBody,
                      length |-> bd[k].length]] :
        nm \in [1..n -> FunctionNames], bd \in [1..n -> NormalizedBodies]}

InitDuplicates ==
    /\ fnArg \in UNION {BodyMatches(n) : n \in 0..MaxBodies}
    /\ fnName = "none"
    /\ fnRet = NULL
    /\ InitApp

ApplyDuplicateCode ==
    Apply("detectDuplicateCode", detectDuplicateCode([bodies |-> fnArg], "a.cpp"))

NextDuplicates == ApplyDuplicateCode

SpecDuplicates == InitDuplicates /\ [][NextDuplicates]_vars

\* the earlier matches with the body of match k
SameBodyBefore(bodies, k) ==
    {j \in 1..(k - 1) : bodies[j].normalizedBody = bodies[k].normalizedBody}

\* the matches that repeat a body of more than 100 characters
LaterOccurrences(bodies) ==
    {k \in 1..Len(bodies) : bodies[k].length > 100 /\ SameBodyBefore(bodies, k) # {}}

FirstOccurrence(bodies, k) ==
    CHOOSE j \in SameBodyBefore(bodies, k) : \A i \in SameBodyBefore(bodies, k) : j <= i

\* C13: among the matched functions with the same normalized body of more
\* than 100 characters the first yields no finding and every later one
\* yields exactly one high DuplicateCode finding that names the first (its
\* name and line); bodies of 100 characters or fewer yield no finding.
C13_DuplicatesNameFirstOccurrence ==
    fnName = "detectDuplicateCode" =>
        LET later == LaterOccurrences(fnArg)
        IN  /\ Len(fnRet) = Cardinality(later)
            /\ \A i \in 1..Len(fnRet) :
                  LET k == CHOOSE x \in later :
                               Cardinality({y \in later : y < x}) = i - 1
                      first == fnArg[FirstOccurrence(fnArg, k)]
                  IN  /\ fnRet[i].type = "DuplicateCode"
                      /\ fnRet[i].severity = "high"
                      /\ fnRet[i].entityName = fnArg[k].functionName
                      /\ fnRet[i].lineNumber = fnArg[k].line
                      /\ fnRet[i].original = first.functionName
                      /\ fnRet[i].originalLine = first.line

C13_Witness ==
    /\ fnName = "detectDuplicateCode"
    /\ Len(fnArg) = 3
    /\ Len(fnRet) = 2
    /\ fnRet[2].original # fnArg[2].functionName
    /\ fnRet[2].originalLine = 1

(***************************************************************************)
(* analyzeCode and the batch handler of App.tsx.                           *)
(***************************************************************************)
\* uuidv4(): an id no other call returns; the id of the i-th push of
\* analysis t is the pair <<t, i>>
uuidv4(t, i) == <<t, i>>

\* the findings with the ids their pushes draw
WithIds(smells, t) ==
    [i \in 1..Len(smells) |-> [id |-> uuidv4(t, i)] @@ smells[i]]

\* the array literal with its last two entries exchanged
DetectAllNestingFirst(content, fileName) ==
    detectLongFunctions(content.tree, fileName)
    \o detectLargeClasses(content.tree, fileName)
    \o detectLongParameterLists(content, fileName)
    \o detectGlobalVariables(content, fileName)
    \o detectDuplicateCode(content, fileName)
    \o detectPrimitiveObsession(content, fileName)
    \o detectInappropriateIntimacy(content, fileName)
    \o detectDeepNesting(content, fileName)
    \o detectComplexConditions(content, fileName)

\* the nine detectors in the order of the array literal of analyzeCode
DetectAll(content, fileName) ==
    detectLongFunctions(content.tree, fileName)
    \o detectLargeClasses(content.tree, fileName)
    \o detectLongParameterLists(content, fileName)
    \o detectGlobalVariables(content, fileName)
    \o detectDuplicateCode(content, fileName)
    \o detectPrimitiveObsession(content, fileName)
    \o detectInappropriateIntimacy(content, fileName)
    \o detectComplexConditions(content, fileName)
    \o detectDeepNesting(content, fileName)

\* the File Result analysis t returns (its timestamp, Date.now(), is read
\* by no operation and is left out)
AnalysisResult(content, fileName, t) ==
    LET smells == WithIds(DetectAll(content, fileName), t)
    IN  [fileName    |-> fileName,
         fileSize    |-> content.size,
         smells      |-> smells,
         totalSmells |-> Len(smells),
         metrics     |-> calculateMetrics(content.tree, Len(content.lines))]

(***************************************************************************)
(* The texts a file can hold.                                              *)
(***************************************************************************)
NoBrace == [open |-> FALSE, close |-> FALSE]
OpenBrace == [open |-> TRUE, close |-> FALSE]
CloseBrace == [open |-> FALSE, close |-> TRUE]

BothBraces == [open |-> TRUE, close |-> TRUE]

\* the one entry of ''.split(',')
BlankParam == [blank |-> TRUE, primitive |-> FALSE, suffix |-> FALSE]

Param(primitive, suffix) == [blank |-> FALSE, primitive |-> primitive, suffix |-> suffix]

TreeNode(type, parent, name, lines, row) ==
    [type |-> type, parent |-> parent, name |-> name, lines |-> lines, row |-> row]

\* A file with a finding of every lexical kind:
\*   line 1       a global variable g
\*   lines 2-22   a function m of five parameters, two of them primitives
\*                with a telling name; its body nests three blocks, the
\*                innermost declaring x, and holds an if with four operators
\*   lines 23-24  two one-line functions p and q with the same body of 120
\*                characters
\*   line 25      a one-line class K that accesses o six times
SmellyText ==
    [size |-> 700,
     tree |-> <<TreeNode("translation_unit", 0, "", 25, 0),
                TreeNode("function_definition", 1, "m", 21, 1),
                TreeNode("compound_statement", 2, "", 21, 1),
                TreeNode("if_statement", 3, "", 1, 9),
                TreeNode("function_definition", 1, "p", 1, 22),
                TreeNode("compound_statement", 5, "", 1, 22),
                TreeNode("function_definition", 1, "q", 1, 23),
                TreeNode("compound_statement", 7, "", 1, 23),
                TreeNode("class_specifier", 1, "K", 1, 24),
                TreeNode("compound_statement", 9, "", 1, 24)>>,
     lines |-> <<NoBrace, OpenBrace, OpenBrace, OpenBrace, OpenBrace, NoBrace,
                 CloseBrace, CloseBrace, CloseBrace>>
               \o [i \in 1..12 |-> NoBrace]
               \o <<CloseBrace, BothBraces, BothBraces, BothBraces>>,
     signatures |-> <<[functionName |-> "m", line |-> 2,
                       params |-> <<Param(TRUE, TRUE), Param(TRUE, TRUE),
                                    Param(TRUE, FALSE), Param(FALSE, FALSE),
                                    Param(FALSE, FALSE)>>],
                      [functionName |-> "p", line |-> 23, params |-> <<BlankParam>>],
                      [functionName |-> "q", line |-> 24, params |-> <<BlankParam>>]>>,
     declarations |-> <<[varName |-> "g", line |-> 1, opens |-> 0, closes |-> 0],
                        [varName |-> "x", line |-> 6, opens |-> 4, closes |-> 0]>>,
     bodies |-> <<[functionName |-> "p", line |-> 23, normalizedBody |-> "b1",
                   length |-> 120],
                  [functionName |-> "q", line |-> 24, normalizedBody |-> "b1",
                   length |-> 120]>>,
     classes |-> <<[className |-> "K", line |-> 25,
                    accesses |-> <<"o", "o", "o", "this", "o", "o", "o">>]>>,
     conditions |-> <<[line |-> 10, operatorCount |-> 4]>>]

\* the empty file: ''.split('\n') is one empty line
EmptyText ==
    [size |-> 0,
     tree |-> <<TreeNode("translation_unit", 0, "", 1, 0)>>,
     lines |-> <<NoBrace>>,
     signatures |-> <<>>, declarations |-> <<>>, bodies |-> <<>>,
     classes |-> <<>>, conditions |-> <<>>]

Texts == {EmptyText, SmellyText}

MaxFiles == 2
MaxBatches == 2

Files == [name : FileNames, content : Texts]

\* FileUpload keeps one file per name and submits no empty list
Batches ==
    {b \in UNION {[1..n -> Files] : n \in 1..MaxFiles} :
        \A i, j \in 1..Len(b) : b[i].name = b[j].name => i = j}

\* the text '// File content not available'
NotAvailable ==
    [size |-> 29,
     tree |-> <<TreeNode("translation_unit", 0, "", 1, 0),
                TreeNode("comment", 1, "", 1, 0)>>,
     lines |-> <<NoBrace>>,
     signatures |-> <<>>, declarations |-> <<>>, bodies |-> <<>>,
     classes |-> <<>>, conditions |-> <<>>]

\* fileContentStore.get(fileName) || '// File content not available': the
\* empty string is falsy
getFileContent(fileName) ==
    IF fileName \in DOMAIN fileContentStore /\ fileContentStore[fileName].size # 0
    THEN fileContentStore[fileName]
    ELSE NotAvailable

InInitialize == {"parserInit", "languageLoad", "setLanguage"}

\* a promise that has no value
NoResult == [fileName |-> ""]

NewTask(file) == [pc |-> "text", file |-> file, result |-> NoResult, error |-> ""]

SetPc(t, pc) == tasks' = [tasks EXCEPT ![t].pc = pc]

\* the lexical detectors run on the text and their findings are returned
RejectWithLexicalResult(t, error) ==
    tasks' = [tasks EXCEPT
                ![t].pc = "fulfilled",
                ![t].error = error,
                ![t].result =
                    LET content == tasks[t].file.content
                        fileName == tasks[t].file.name
                        smells == WithIds(detectLongParameterLists(content, fileName)
                                          \o detectGlobalVariables(content, fileName)
                                          \o detectDeepNesting(content, fileName), t)
                    IN  [fileName    |-> fileName,
                         fileSize    |-> content.size,
                         smells      |-> smells,
                         totalSmells |-> Len(smells),
                         metrics     |-> RootMetrics(Len(content.lines))]]

\* an exception leaves analyzeCode: its promise is rejected
Reject(t, error) == tasks' = [tasks EXCEPT ![t].pc = "rejected", ![t].error = error]

\* the "Start" and "Upload More Files" buttons
handleStartClick ==
    /\ ~showUpload
    /\ showUpload' = TRUE
    /\ UNCHANGED <<instance, initialized, parser, wasm, fileContentStore, tasks,
                   handler, results, stats, isAnalyzing, initCalls, fnVars>>

\* handleFilesUploaded up to its await: the Analyze button is disabled while
\* isAnalyzing, and every mapper runs up to its await file.text()
handleFilesUploaded ==
    /\ showUpload
    /\ ~isAnalyzing
    /\ handler.batches < MaxBatches
    /\ \E files \in Batches :
          /\ tasks' = tasks \o [i \in 1..Len(files) |-> NewTask(files[i])]
          /\ handler' = [pc |-> "awaitAll",
                         tasks |-> [i \in 1..Len(files) |-> Len(tasks) + i],
                         batches |-> handler.batches + 1]
    /\ isAnalyzing' = TRUE
    /\ UNCHANGED <<instance, initialized, parser, wasm, fileContentStore, results,
                   stats, showUpload, initCalls, fnVars>>

\* file.text() resolves: analyzeCode stores the text and calls getInstance,
\* which creates the instance and, when it is not initialized, calls
\* initialize(), which runs up to its await Parser.init()
ReadText(t) ==
    /\ tasks[t].pc = "text"
    /\ fileContentStore' =
          [n \in DOMAIN fileContentStore \cup {tasks[t].file.name} |->
              IF n = tasks[t].file.name THEN tasks[t].file.content
              ELSE fileContentStore[n]]
    /\ instance' = TRUE
    /\ IF initialized
       THEN /\ SetPc(t, "gotInstance")
            /\ UNCHANGED initCalls
       ELSE /\ SetPc(t, "parserInit")
            /\ initCalls' = initCalls + 1
    /\ UNCHANGED <<initialized, parser, wasm, handler, results, stats, isAnalyzing,
                   showUpload, fnVars>>

\* Parser.init() resolved: this.parser = new Parser(), then Language.load starts
ParserInitResolves(t) ==
    /\ tasks[t].pc = "parserInit"
    /\ wasm # "failed"
    /\ wasm' = "ok"
    /\ parser' = "bare"
    /\ SetPc(t, "languageLoad")
    /\ UNCHANGED <<instance, initialized, fileContentStore, handler, results, stats,
                   isAnalyzing, showUpload, initCalls, fnVars>>

\* Parser.init() rejected: the catch block rethrows
ParserInitRejects(t) ==
    /\ tasks[t].pc = "parserInit"
    /\ wasm # "ok"
    /\ wasm' = "failed"
    /\ Reject(t, "Failed to initialize code parser")
    /\ UNCHANGED <<instance, initialized, parser, fileContentStore, handler, results,
                   stats, isAnalyzing, showUpload, initCalls, fnVars>>

\* Language.load resolved: this.parser.setLanguage(Lang) on the parser the
\* instance holds now
LanguageLoadResolves(t) ==
    /\ tasks[t].pc = "languageLoad"
    /\ parser' = "cpp"
    /\ SetPc(t, "setLanguage")
    /\ UNCHANGED <<instance, initialized, wasm, fileContentStore, handler, results,
                   stats, isAnalyzing, showUpload, initCalls, fnVars>>

\* Language.load rejected: the catch block rethrows
LanguageLoadRejects(t) ==
    /\ tasks[t].pc = "languageLoad"
    /\ Reject(t, "Failed to initialize code parser")
    /\ UNCHANGED <<instance, initialized, parser, wasm, fileContentStore, handler,
                   results, stats, isAnalyzing, showUpload, initCalls, fnVars>>

\* after await setLanguage: this.initialized = true; initialize() and then
\* getInstance() return
SetInitialized(t) ==
    /\ tasks[t].pc = "setLanguage"
    /\ initialized' = TRUE
    /\ SetPc(t, "gotInstance")
    /\ UNCHANGED <<instance, parser, wasm, fileContentStore, handler, results, stats,
                   isAnalyzing, showUpload, initCalls, fnVars>>

\* analyzeCode resumes with the instance: parseCode, calculateMetrics, and
\* detectLongFunctions up to its await getInstance()
ParseCode(t) ==
    /\ tasks[t].pc = "gotInstance"
    /\ IF parseCode = "tree"
       THEN SetPc(t, "longFunctions")
       ELSE Reject(t, parseCode)
    /\ UNCHANGED <<instance, initialized, parser, wasm, fileContentStore, handler,
                   results, stats, isAnalyzing, showUpload, initCalls, fnVars>>

\* detectLongFunctions resumes and returns; detectLargeClasses runs up to its
\* await getInstance()
LongFunctionsDone(t) ==
    /\ tasks[t].pc = "longFunctions"
    /\ SetPc(t, "largeClasses")
    /\ UNCHANGED <<instance, initialized, parser, wasm, fileContentStore, handler,
                   results, stats, isAnalyzing, showUpload, initCalls, fnVars>>

\* detectLargeClasses resumes and returns; the lexical detectors run and
\* analyzeCode returns its File Result
LargeClassesDone(t) ==
    /\ tasks[t].pc = "largeClasses"
    /\ tasks' = [tasks EXCEPT
                    ![t].pc = "fulfilled",
                    ![t].result = AnalysisResult(tasks[t].file.content,
                                                 tasks[t].file.name, t)]
    /\ UNCHANGED <<instance, initialized, parser, wasm, fileContentStore, handler,
                   results, stats, isAnalyzing, showUpload, initCalls, fnVars>>

\* the new File Results are added to those already published
JoinResolvedMerging ==
    /\ handler.pc = "awaitAll"
    /\ \A i \in 1..Len(handler.tasks) : tasks[handler.tasks[i]].pc = "fulfilled"
    /\ LET analysisResults ==
              [i \in 1..Len(handler.tasks) |-> tasks[handler.tasks[i]].result]
       IN  /\ results' = results \o analysisResults
           /\ stats' = calculateStats(results \o analysisResults)
    /\ showUpload' = FALSE
    /\ isAnalyzing' = FALSE
    /\ handler' = [handler EXCEPT !.pc = "idle"]
    /\ UNCHANGED <<instance, initialized, parser, wasm, fileContentStore, tasks,
                   initCalls, fnVars>>

\* the File Results are published last file first
JoinResolvedReversed ==
    /\ handler.pc = "awaitAll"
    /\ \A i \in 1..Len(handler.tasks) : tasks[handler.tasks[i]].pc = "fulfilled"
    /\ LET n == Len(handler.tasks)
           analysisResults ==
              [i \in 1..n |-> tasks[handler.tasks[n + 1 - i]].result]
       IN  /\ results' = analysisResults
           /\ stats' = calculateStats(analysisResults)
    /\ showUpload' = FALSE
    /\ isAnalyzing' = FALSE
    /\ handler' = [handler EXCEPT !.pc = "idle"]
    /\ UNCHANGED <<instance, initialized, parser, wasm, fileContentStore, tasks,
                   initCalls, fnVars>>

\* Promise.all resolved: every analysis of the batch is fulfilled
JoinResolved ==
    /\ handler.pc = "awaitAll"
    /\ \A i \in 1..Len(handler.tasks) : tasks[handler.tasks[i]].pc = "fulfilled"
    /\ LET analysisResults ==
              [i \in 1..Len(handler.tasks) |-> tasks[handler.tasks[i]].result]
       IN  /\ results' = analysisResults
           /\ stats' = calculateStats(analysisResults)
    /\ showUpload' = FALSE
    /\ isAnalyzing' = FALSE
    /\ handler' = [handler EXCEPT !.pc = "idle"]
    /\ UNCHANGED <<instance, initialized, parser, wasm, fileContentStore, tasks,
                   initCalls, fnVars>>

\* the catch block publishes the File Results that are there
JoinRejectedPublishingPartial ==
    /\ handler.pc = "awaitAll"
    /\ \E i \in 1..Len(handler.tasks) : tasks[handler.tasks[i]].pc = "rejected"
    /\ LET IsFulfilled(t) == tasks[t].pc = "fulfilled"
           done == SelectSeq(handler.tasks, IsFulfilled)
           analysisResults == [i \in 1..Len(done) |-> tasks[done[i]].result]
       IN  IF done = <<>>
           THEN UNCHANGED <<results, stats>>
           ELSE /\ results' = analysisResults
                /\ stats' = calculateStats(analysisResults)
    /\ isAnalyzing' = FALSE
    /\ handler' = [handler EXCEPT !.pc = "idle"]
    /\ UNCHANGED <<instance, initialized, parser, wasm, fileContentStore, tasks,
                   showUpload, initCalls, fnVars>>

\* a handler without its finally block
JoinRejectedWithoutFinally ==
    /\ handler.pc = "awaitAll"
    /\ \E i \in 1..Len(handler.tasks) : tasks[handler.tasks[i]].pc = "rejected"
    /\ handler' = [handler EXCEPT !.pc = "idle"]
    /\ UNCHANGED <<instance, initialized, parser, wasm, fileContentStore, tasks,
                   results, stats, isAnalyzing, showUpload, initCalls, fnVars>>

\* Promise.all rejected: an analysis of the batch is rejected; catch, finally
JoinRejected ==
    /\ handler.pc = "awaitAll"
    /\ \E i \in 1..Len(handler.tasks) : tasks[handler.tasks[i]].pc = "rejected"
    /\ isAnalyzing' = FALSE
    /\ handler' = [handler EXCEPT !.pc = "idle"]
    /\ UNCHANGED <<instance, initialized, parser, wasm, fileContentStore, tasks,
                   results, stats, showUpload, initCalls, fnVars>>

Init ==
    /\ InitApp
    /\ fnArg = NULL
    /\ fnName = "none"
    /\ fnRet = NULL

TaskIds == 1..Len(tasks)

ReadTextStep == \E t \in TaskIds : ReadText(t)
ParserInitResolvesStep == \E t \in TaskIds : ParserInitResolves(t)
ParserInitRejectsStep == \E t \in TaskIds : ParserInitRejects(t)
LanguageLoadResolvesStep == \E t \in TaskIds : LanguageLoadResolves(t)
LanguageLoadRejectsStep == \E t \in TaskIds : LanguageLoadRejects(t)
SetInitializedStep == \E t \in TaskIds : SetInitialized(t)
ParseCodeStep == \E t \in TaskIds : ParseCode(t)
LongFunctionsDoneStep == \E t \in TaskIds : LongFunctionsDone(t)
LargeClassesDoneStep == \E t \in TaskIds : LargeClassesDone(t)

Next ==
    \/ handleStartClick
    \/ handleFilesUploaded
    \/ JoinResolved
    \/ JoinRejected
    \/ ReadTextStep
    \/ ParserInitResolvesStep
    \/ ParserInitRejectsStep
    \/ LanguageLoadResolvesStep
    \/ LanguageLoadRejectsStep
    \/ SetInitializedStep
    \/ ParseCodeStep
    \/ LongFunctionsDoneStep
    \/ LargeClassesDoneStep

Spec == Init /\ [][Next]_vars

(***************************************************************************)
(* Properties of the provider, analyzeCode and the batch handler (Spec).   *)
(***************************************************************************)
Initializing == {t \in TaskIds : tasks[t].pc \in InInitialize}

\* C1: when several analyzeCode calls reach getInstance before the provider
\* is initialized, one initialization attempt is performed and the other
\* callers wait for it: no two calls of initialize() are in progress at once.
C1_OneInitializationAtATime == Cardinality(Initializing) <= 1

LastBatch == handler.tasks

\* C4: when the analysis of a file of a batch fails, the batch still ends
\* with one published File Result per file, in input order, the failed file
\* being present with no findings.
C4_FailedFileIsolated ==
    (/\ handler.pc = "idle"
     /\ \E i \in 1..Len(LastBatch) : tasks[LastBatch[i]].pc = "rejected") =>
        /\ Len(results) = Len(LastBatch)
        /\ \A i \in 1..Len(LastBatch) :
              /\ results[i].fileName = tasks[LastBatch[i]].file.name
              /\ tasks[LastBatch[i]].pc = "rejected" => results[i].totalSmells = 0
              /\ tasks[LastBatch[i]].pc = "fulfilled" =>
                    results[i] = tasks[LastBatch[i]].result

\* the analyzeCode calls a step makes for a file name: analyzeCode is called
\* when file.text() has resolved
CallsFor(name) ==
    {t \in TaskIds : /\ tasks[t].file.name = name
                     /\ tasks[t].pc = "text"
                     /\ tasks'[t].pc # "text"}

\* C15: getFileContent(name) is the "not available" sentinel as long as no
\* analyzeCode call was made with that name, and from then on the text of
\* the most recent call with that name, whatever the text, the empty text
\* included.
C15_StoreReturnsLastText ==
    /\ \A name \in FileNames : getFileContent(name) = NotAvailable
    /\ [][\A name \in FileNames :
            IF CallsFor(name) = {}
            THEN getFileContent(name)' = getFileContent(name)
            ELSE /\ getFileContent(name)' # NotAvailable
                 /\ \E t \in CallsFor(name) :
                       getFileContent(name)' = tasks[t].file.content]_vars

Fulfilled == {t \in TaskIds : tasks[t].pc = "fulfilled"}

StripIds(smells) ==
    [i \in 1..Len(smells) |->
        [k \in DOMAIN smells[i] \ {"id"} |-> smells[i][k]]]

\* the File Results of the batch the handler awaits, in input order
AwaitedResults ==
    [i \in 1..Len(handler.tasks) |-> tasks[handler.tasks[i]].result]

\* C20: the published stats are calculateStats of the published results at
\* all times, and the published results change only when a batch has
\* succeeded, to the File Results of that batch alone: those of earlier
\* batches are replaced, not merged.
C20_StatsOfLatestBatchOnly ==
    /\ []((results = <<>> /\ stats = NULL) \/ stats = calculateStats(results))
    /\ [][results' # results =>
            /\ handler.pc = "awaitAll"
            /\ \A i \in 1..Len(handler.tasks) : tasks[handler.tasks[i]].pc = "fulfilled"
            /\ results' = AwaitedResults
            /\ stats' = calculateStats(AwaitedResults)]_vars

C20_Witness ==
    /\ handler.batches = 2
    /\ handler.pc = "idle"
    /\ results = AwaitedResults
    /\ stats.totalFiles = Len(results)
    /\ stats.totalSmells = 0
    /\ \E t \in Fulfilled : tasks[t].result.totalSmells > 0

Failed == {t \in TaskIds : tasks[t].error # ""}

\* C19: when obtaining the provider or building the tree fails for a file,
\* analyzeCode fails for that file: its promise is rejected, it returns no
\* File Result, and no detector output is kept for it.
C19_FailureYieldsNoResult ==
    \A t \in Failed :
        /\ tasks[t].pc = "rejected"
        /\ tasks[t].result = NoResult
        /\ \A i \in 1..Len(results) : results[i] # tasks[t].result

C19_Witness ==
    \E t1, t2 \in Failed :
        /\ tasks[t1].error = "Parsing failed"
        /\ tasks[t2].error = "Failed to initialize code parser"
        /\ tasks[t1].pc = "rejected"
        /\ tasks[t2].pc = "rejected"
        /\ tasks[t1].result = NoResult
        /\ tasks[t1].file.content = SmellyText

\* the batch of an analysis: there are at most two, the latest being the
\* one the handler awaits or has awaited
BatchOf(t) ==
    LET latest == {handler.tasks[i] : i \in 1..Len(handler.tasks)}
    IN  IF t \in latest THEN latest ELSE TaskIds \ latest

\* the other files an analysis meets: those analyzed in earlier batches and
\* those of its own batch, which run concurrently with it
Context(t) ==
    [before |-> [u \in {v \in TaskIds : v < t} \ BatchOf(t) |-> tasks[u].file],
     beside |-> [u \in BatchOf(t) \ {t} |-> tasks[u].file]]

RegistrationOrder ==
    <<"LongFunction", "LargeClass", "LongParameterList", "GlobalVariables",
      "DuplicateCode", "PrimitiveObsession", "InappropriateIntimacy",
      "ComplexCondition", "DeepNesting">>

Rank(kind) == CHOOSE i \in 1..Len(RegistrationOrder) : RegistrationOrder[i] = kind

\* what the detector of a kind returns for a file
DetectorOutput(kind, file) ==
    CASE kind = "LongFunction" -> detectLongFunctions(file.content.tree, file.name)
      [] kind = "LargeClass" -> detectLargeClasses(file.content.tree, file.name)
      [] kind = "LongParameterList" -> detectLongParameterLists(file.content, file.name)
      [] kind = "GlobalVariables" -> detectGlobalVariables(file.content, file.name)
      [] kind = "DuplicateCode" -> detectDuplicateCode(file.content, file.name)
      [] kind = "PrimitiveObsession" -> detectPrimitiveObsession(file.content, file.name)
      [] kind = "InappropriateIntimacy" ->
             detectInappropriateIntimacy(file.content, file.name)
      [] kind = "ComplexCondition" -> detectComplexConditions(file.content, file.name)
      [] kind = "DeepNesting" -> detectDeepNesting(file.content, file.name)

OfKind(smells, kind) ==
    LET IsKind(smell) == smell.type = kind
    IN  SelectSeq(smells, IsKind)

\* C17: the findings of a File Result are the outputs of the nine detectors
\* in registration order: the kinds follow one another in that order, the
\* findings of a kind are what its detector returned, in its order, and
\* totalSmells is the length of the list.
C17_FindingsInRegistrationOrder ==
    \A t \in Fulfilled :
        LET smells == tasks[t].result.smells
        IN  /\ tasks[t].result.totalSmells = Len(smells)
            /\ \A i, j \in 1..Len(smells) :
                  i < j => Rank(smells[i].type) <= Rank(smells[j].type)
            /\ \A kind \in CodeSmellTypes :
                  OfKind(StripIds(smells), kind) = DetectorOutput(kind, tasks[t].file)

C17_Witness ==
    \E t \in Fulfilled :
        /\ tasks[t].result.totalSmells = 7
        /\ tasks[t].result.smells[1].type = "LongParameterList"
        /\ tasks[t].result.smells[5].type = "InappropriateIntimacy"
        /\ tasks[t].result.smells[6].type = "ComplexCondition"
        /\ tasks[t].result.smells[7].type = "DeepNesting"

C26_FailedInitializationIsFatal ==
    [][\A t \in TaskIds :
          (tasks[t].pc \in InInitialize /\ tasks'[t].pc = "rejected") =>
              /\ ~initialized'
              /\ \A u \in TaskIds : tasks'[u].pc # "gotInstance"
              /\ initCalls' = initCalls]_vars

(***************************************************************************)
(* SpecLexical: the regex detectors of codeAnalysis.ts applied to one      *)
(* input each.                                                             *)
(*   signature     one match of functionRegex; its parameter text is the   *)
(*                 list of the segments params.split(',') returns          *)
(*   condition     the text that follows "if (" up to the parenthesis that *)
(*                 closes the condition, as tokens: "(" and ")" of nested  *)
(*                 parentheses and calls, "op" one match of the operator   *)
(*                 regex                                                   *)
(*   declarations  a text as the sequence of its braces and of the matches *)
(*                 of globalVarRegex ("decl")                              *)
(***************************************************************************)
MaxParams == 9

MaxTokens == 6

MaxItems == 5

ParamLists ==
    UNION {[1..n -> {BlankParam, Param(FALSE, FALSE)}] : n \in 1..MaxParams}

ConditionTokens == {"(", ")", "op"}

CountToken(tokens, k, token) ==
    Cardinality({i \in 1..k : tokens[i] = token})

\* every ")" closes an earlier "(" and no "(" stays open
Balanced(tokens) ==
    /\ \A k \in 1..Len(tokens) : CountToken(tokens, k, ")") <= CountToken(tokens, k, "(")
    /\ CountToken(tokens, Len(tokens), ")") = CountToken(tokens, Len(tokens), "(")

Conditions ==
    {c \in UNION {[1..n -> ConditionTokens] : n \in 0..MaxTokens} : Balanced(c)}

ItemLists ==
    UNION {[1..n -> {"{", "}", "decl"}] : n \in 0..MaxItems}

\* (.*?) of /if\s*\((.*?)\)/ : lazy, it ends before the first ")" that follows
ifRegexCapture(tokens) ==
    LET text == tokens \o <<")">>
        first == CHOOSE k \in 1..Len(text) :
                     /\ text[k] = ")"
                     /\ \A j \in 1..(k - 1) : text[j] # ")"
    IN  SubSeq(text, 1, first - 1)

\* (condition.match(/&&|\|\||!|==|!=|>=|<=|>|</g) || []).length
operatorCount(condition) ==
    CountToken(condition, Len(condition), "op")

ConditionMatch(tokens) ==
    [line |-> 1, operatorCount |-> operatorCount(ifRegexCapture(tokens))]

\* the matches of globalVarRegex with the braces of beforeMatch
DeclarationMatches(items) ==
    LET IsDecl(i) == items[i] = "decl"
        at == SelectSeq([i \in 1..Len(items) |-> i], IsDecl)
    IN  [k \in 1..Len(at) |->
            [varName |-> "v", line |-> at[k],
             opens  |-> CountToken(items, at[k] - 1, "{"),
             closes |-> CountToken(items, at[k] - 1, "}")]]

InitLexical ==
    /\ fnArg \in {[kind |-> "signature", params |-> p] : p \in ParamLists}
               \cup {[kind |-> "condition", tokens |-> c] : c \in Conditions}
               \cup {[kind |-> "declarations", items |-> d] : d \in ItemLists}
    /\ fnName = "none"
    /\ fnRet = NULL
    /\ InitApp

ApplyLongParameterLists ==
    /\ fnArg.kind = "signature"
    /\ Apply("detectLongParameterLists",
             detectLongParameterLists(
                 [signatures |-> <<[functionName |-> "f", line |-> 1,
                                    params |-> fnArg.params]>>], "a.cpp"))

ApplyComplexConditions ==
    /\ fnArg.kind = "condition"
    /\ Apply("detectComplexConditions",
             detectComplexConditions(
                 [conditions |-> <<ConditionMatch(fnArg.tokens)>>], "a.cpp"))

ApplyGlobalVariables ==
    /\ fnArg.kind = "declarations"
    /\ Apply("detectGlobalVariables",
             detectGlobalVariables(
                 [declarations |-> DeclarationMatches(fnArg.items)], "a.cpp"))

NextLexical ==
    \/ ApplyLongParameterLists
    \/ ApplyComplexConditions
    \/ ApplyGlobalVariables

SpecLexical == InitLexical /\ [][NextLexical]_vars

\* the segments of the parameter text that are not empty once trimmed
NonEmptyParams(params) ==
    {i \in 1..Len(params) : params[i] # BlankParam}

\* C23: detectLongParameterLists flags a matched signature exactly when the
\* number of its comma-separated parameters that are not empty after
\* trimming exceeds 4: low for 5, medium for 6 or 7, high for 8 or more;
\* a signature with 4 or fewer parameters is never flagged.
C23_LongParameterListBoundaries ==
    fnName = "detectLongParameterLists" =>
        LET n == Cardinality(NonEmptyParams(fnArg.params))
        IN  /\ Len(fnRet) = IF n > 4 THEN 1 ELSE 0
            /\ \A i \in 1..Len(fnRet) :
                  /\ fnRet[i].type = "LongParameterList"
                  /\ fnRet[i].count = n
                  /\ fnRet[i].severity = IF n >= 8 THEN "high"
                                         ELSE IF n \in {6, 7} THEN "medium"
                                         ELSE "low"

C23_Witness ==
    /\ fnName = "detectLongParameterLists"
    /\ Len(fnArg.params) = 9
    /\ Cardinality(NonEmptyParams(fnArg.params)) = 8
    /\ Len(fnRet) = 1
    /\ fnRet[1].severity = "high"

\* C24: for every if (...) detectComplexConditions emits a finding exactly
\* when the number of logical and relational operator tokens inside the
\* whole parenthesised condition, nested parentheses included, exceeds 3;
\* the finding is high when the number exceeds 5 and medium otherwise.
C24_WholeConditionCounted ==
    fnName = "detectComplexConditions" =>
        LET n == CountToken(fnArg.tokens, Len(fnArg.tokens), "op")
        IN  /\ Len(fnRet) = IF n > 3 THEN 1 ELSE 0
            /\ \A i \in 1..Len(fnRet) :
                  fnRet[i].severity = IF n > 5 THEN "high" ELSE "medium"

\* the matches of the text that follow as many "{" as "}"
BalancedDeclarations(items) ==
    {k \in 1..Len(items) :
        /\ items[k] = "decl"
        /\ CountToken(items, k - 1, "{") - CountToken(items, k - 1, "}") = 0}

\* C25: detectGlobalVariables reports a matched declaration exactly when
\* the number of "{" minus the number of "}" in all the text before it is
\* zero; a match preceded by unbalanced open braces is never reported; every
\* finding has severity medium.
C25_GlobalsAtBraceBalanceZero ==
    fnName = "detectGlobalVariables" =>
        LET reported == BalancedDeclarations(fnArg.items)
        IN  /\ Len(fnRet) = Cardinality(reported)
            /\ \A i \in 1..Len(fnRet) :
                  /\ fnRet[i].type = "GlobalVariables"
                  /\ fnRet[i].severity = "medium"
                  /\ fnRet[i].lineNumber \in reported
                  /\ Cardinality({k \in reported : k < fnRet[i].lineNumber}) = i - 1

C25_Witness ==
    /\ fnName = "detectGlobalVariables"
    /\ fnArg.items = <<"{", "decl", "}", "decl">>
    /\ Len(fnRet) = 1
    /\ fnRet[1].lineNumber = 4

(***************************************************************************)
(* SpecReadFailure: the page when file.text() can reject.  The first       *)
(* upload holds one file, so that the provider is initialized (or has      *)
(* failed to) before a batch of several files runs; the later uploads are  *)
(* any batch.                                                              *)
(***************************************************************************)
\* file.text() rejected: the mapper throws before analyzeCode is called
ReadTextRejects(t) ==
    /\ tasks[t].pc = "text"
    /\ Reject(t, "file.text() rejected")
    /\ UNCHANGED <<instance, initialized, parser, wasm, fileContentStore, handler,
                   results, stats, isAnalyzing, showUpload, initCalls, fnVars>>

ReadTextRejectsStep == \E t \in TaskIds : ReadTextRejects(t)

\* an upload; the first one of the page holds a single file
handleFilesUploadedOneFirst ==
    /\ handleFilesUploaded
    /\ handler.batches = 0 => Len(handler'.tasks) = 1

NextReadFailure ==
    \/ handleStartClick
    \/ handleFilesUploadedOneFirst
    \/ JoinResolved
    \/ JoinRejected
    \/ ReadTextStep
    \/ ReadTextRejectsStep
    \/ ParserInitResolvesStep
    \/ ParserInitRejectsStep
    \/ LanguageLoadResolvesStep
    \/ LanguageLoadRejectsStep
    \/ SetInitializedStep
    \/ ParseCodeStep
    \/ LongFunctionsDoneStep
    \/ LargeClassesDoneStep

SpecReadFailure == Init /\ [][NextReadFailure]_vars

\* the analyses of the batch the handler awaits or has awaited last
BatchTasks == {handler.tasks[i] : i \in 1..Len(handler.tasks)}

\* C27: when an analysis of a batch fails, the whole batch is discarded:
\* from the failure to the end of the handler the published results and
\* statistics keep the values they had before the batch, whichever analyses
\* of the batch have completed and in whatever order.
C27_FailedBatchDiscarded ==
    [][(handler.pc = "awaitAll" /\ \E t \in BatchTasks : tasks'[t].pc = "rejected")
          => (results' = results /\ stats' = stats)]_vars

C27_Witness ==
    /\ handler.pc = "idle"
    /\ handler.batches = 2
    /\ \E t \in BatchTasks : tasks[t].pc = "rejected"
    /\ \E t \in BatchTasks : tasks[t].pc = "fulfilled" /\ tasks[t].result.totalSmells > 0
    /\ results = [i \in 1..Len(results) |-> tasks[i].result]
    /\ \E i \in 1..Len(results) : results[i].totalSmells > 0
    /\ stats.totalFiles = Len(results)

\* every pending promise of an analysis settles, whichever way, and the
\* continuation of a settled Promise.all is run.  The weak fairness of
\* LargeClassesDoneStep is written out: the step is enabled exactly when an
\* analysis waits in detectLargeClasses.
FairnessReadFailure ==
    /\ WF_vars(ReadTextStep \/ ReadTextRejectsStep)
    /\ WF_vars(ParserInitResolvesStep \/ ParserInitRejectsStep)
    /\ WF_vars(LanguageLoadResolvesStep \/ LanguageLoadRejectsStep)
    /\ WF_vars(SetInitializedStep)
    /\ WF_vars(ParseCodeStep)
    /\ WF_vars(LongFunctionsDoneStep)
    /\ \/ []<>~(\E t \in TaskIds : tasks[t].pc = "largeClasses")
       \/ []<><<LargeClassesDoneStep>>_vars
    /\ WF_vars(JoinResolved \/ JoinRejected)

SpecReadFailureFair == SpecReadFailure /\ FairnessReadFailure

\* C30: every started batch (isAnalyzing true) eventually ends with
\* isAnalyzing false, when the batch succeeds and when it fails, provided
\* every analysis of a file eventually settles.
C30_BatchEventuallyEnds ==
    isAnalyzing ~> ~isAnalyzing

C30_Witness ==
    /\ handler.batches = 2
    /\ handler.pc = "idle"
    /\ ~isAnalyzing
    /\ \E t \in BatchTasks : tasks[t].pc = "rejected"
    /\ \E t \in BatchTasks : tasks[t].pc = "text"

\* C28: whenever initialized is true the parser the singleton holds is not
\* null and has the C++ grammar set, so parseCode never runs on a parser
\* that a concurrent initialize() has replaced.
C28_InitializedParserHasGrammar ==
    initialized => (parser = "cpp" /\ parseCode = "tree")

\* the batch the handler awaited last has been published
BatchSucceeded ==
    /\ handler.pc = "idle"
    /\ handler.batches > 0
    /\ \A t \in BatchTasks : tasks[t].pc = "fulfilled"

\* C29: a successful batch of N files publishes exactly N File Results, the
\* i-th one being the result of the i-th file of the input, in whatever
\* order the analyses completed, and totalFiles is N.
C29_ResultsInInputOrder ==
    BatchSucceeded =>
        /\ Len(results) = Len(handler.tasks)
        /\ \A i \in 1..Len(handler.tasks) :
              /\ results[i] = tasks[handler.tasks[i]].result
              /\ results[i].fileName = tasks[handler.tasks[i]].file.name
        /\ stats.totalFiles = Len(handler.tasks)

C29_Witness ==
    /\ BatchSucceeded
    /\ Len(handler.tasks) = 2
    /\ results[1].fileName # results[2].fileName
    /\ results[1].totalSmells = 0
    /\ results[2].totalSmells > 0
    /\ initCalls = 2

====
